---- MODULE Spec2Model ----
(***************************************************************************)
(* A model of src/main.rs: the card deck, the three shuffles, the dealer,  *)
(* the per-trial counting of analyze_randomness and the trial loop of      *)
(* main.                                                                   *)
(*                                                                         *)
(* Two specifications share the variables:                                 *)
(*   Spec      one trial pipeline on a small input deck: any sequence of   *)
(*             shuffle_deck / riffle_shuffle / overhand_shuffle calls,     *)
(*             then one deal_hands call with arbitrary arguments;          *)
(*   MainSpec  the loop of main as it is compiled: generate_deck,          *)
(*             deal_hands(4, 10), analyze_randomness, push.                *)
(***************************************************************************)
EXTENDS Integers, Sequences, FiniteSets, TLC

VARIABLES
    deck,               \* the Vec<Card> every function works on
    hands,              \* the Vec<Vec<Card>> deal_hands returned
    pc,                 \* position of the running function
    op,                 \* the function called last
    input,              \* the deck the trial started with
    deck0,              \* the deck when the current call (or overhand pass) began
    times,              \* shuffle_deck: repetitions still to run
    mid,                \* riffle_shuffle: the split point
    left_iter,          \* riffle_shuffle: what left_iter still yields
    right_iter,         \* riffle_shuffle: what right_iter still yields
    shuffled,           \* riffle_shuffle / overhand_shuffle: the output being built
    passes,             \* overhand_shuffle: the argument
    pass_i,             \* overhand_shuffle: passes completed
    cuts,               \* overhand_shuffle: chunk sizes drawn in the current pass
    iters,              \* iterations of the current while loop
    num_hands,          \* deal_hands: the argument
    hand_size,          \* deal_hands: the argument
    trial,              \* main: trials completed
    color_count,        \* analyze_randomness: the map color_key -> count
    value_count,        \* analyze_randomness: the map value_key -> count
    total_cards,        \* analyze_randomness: cards counted
    randomness_results  \* main: one metric map per trial

vars == <<deck, hands, pc, op, input, deck0, times, mid, left_iter, right_iter,
          shuffled, passes, pass_i, cuts, iters, num_hands, hand_size, trial,
          color_count, value_count, total_cards, randomness_results>>

riffleVars == <<mid, left_iter, right_iter>>
overhandVars == <<passes, pass_i, cuts>>
dealVars == <<hands, num_hands, hand_size>>
mainVars == <<trial, color_count, value_count, total_cards, randomness_results>>

----------------------------------------------------------------------------
(* Bounds of the model *)

\* longest input deck on which every permutation is explored
MaxLen == 4
\* largest repeat count given to shuffle_deck
MaxTimes == 2
\* largest pass count given to overhand_shuffle
MaxPasses == 2
\* largest num_hands given to deal_hands besides NUM_HANDS
MaxHands == 3
\* largest hand_size given to deal_hands besides HAND_SIZE
MaxHandSize == 2
\* trials of main that are explored
MaxTrials == 40

----------------------------------------------------------------------------
(* Program constants *)

NUM_WILD_CARDS == 8
NUM_SKIP_CARDS == 4
HAND_SIZE == 10
NUM_HANDS == 4
iterations == 1000
\* the literals of the source
NUM_VALUES == 12
CHUNK_LIMIT == 10
RUN_LIMIT == 3
SPLIT_SLACK == 2

\* the shortest deck longer than the overhand chunk limit
LongLen == CHUNK_LIMIT + 1

Min(a, b) == IF a < b THEN a ELSE b

----------------------------------------------------------------------------
(* Cards *)

RealColors == <<"Red", "Blue", "Green", "Yellow">>

Number(n) == <<"Number", n>>
ValueWild == <<"Wild">>
ValueSkip == <<"Skip">>

Card(c, v) == [color |-> c, value |-> v]

WildCard == Card("Wild", ValueWild)
SkipCard == Card("Skip", ValueSkip)

\* a faulty variant of NumberCards: one copy of each number card instead of two
NumberCards_OneCopy(color) ==
    [i \in 1..NUM_VALUES |-> Card(color, Number(i))]

\* the inner loop of generate_deck: value 1..=12, two pushes each
NumberCards(color) ==
    [i \in 1..(2 * NUM_VALUES) |-> Card(color, Number((i + 1) \div 2))]

RECURSIVE AllNumberCards(_)
\* the outer loop of generate_deck over the colors from the k-th on
AllNumberCards(k) ==
    IF k > Len(RealColors) THEN <<>>
    ELSE NumberCards(RealColors[k]) \o AllNumberCards(k + 1)

\* a faulty variant of generate_deck: the Skip cards are pushed before the Wild cards
generate_deck_SkipFirst ==
    AllNumberCards(1)
        \o [i \in 1..NUM_SKIP_CARDS |-> SkipCard]
        \o [i \in 1..NUM_WILD_CARDS |-> WildCard]

generate_deck ==
    AllNumberCards(1)
        \o [i \in 1..NUM_WILD_CARDS |-> WildCard]
        \o [i \in 1..NUM_SKIP_CARDS |-> SkipCard]

----------------------------------------------------------------------------
(* Vec and iterator operations *)

\* a faulty variant of Pop: the card is taken from the front
Pop_Front(d) == [card |-> d[1], rest |-> SubSeq(d, 2, Len(d))]

\* a faulty variant of Pop: the card is returned but stays in the deck
Pop_Keep(d) == [card |-> d[Len(d)], rest |-> d]

\* deck.pop() on a non-empty deck
Pop(d) == [card |-> d[Len(d)], rest |-> SubSeq(d, 1, Len(d) - 1)]

\* a faulty variant of Drain: one card more is removed than is collected
Drain_Extra(d, n) ==
    [chunk |-> SubSeq(d, 1, n), rest |-> SubSeq(d, n + 2, Len(d))]

\* deck.drain(0..n).collect()
Drain(d, n) == [chunk |-> SubSeq(d, 1, n), rest |-> SubSeq(d, n + 1, Len(d))]

\* a faulty variant of Splice0: the chunk is appended
Splice0_Append(s, chunk) == s \o chunk

\* shuffled.splice(0..0, chunk)
Splice0(s, chunk) == chunk \o s

\* for _ in 0..n { if let Some(c) = iter.next() { shuffled.push(c.clone()) } }
TakeRun(iter, n) ==
    [taken |-> SubSeq(iter, 1, Min(n, Len(iter))),
     rest  |-> SubSeq(iter, Min(n, Len(iter)) + 1, Len(iter))]

\* a faulty variant of RunRange: a run may be empty
RunRange_Zero == 0..RUN_LIMIT

\* a faulty variant of RunRange: a run may hold four cards
RunRange_Four == 1..(RUN_LIMIT + 1)

\* rng.gen_range(1..=3)
RunRange == 1..RUN_LIMIT

\* rng.gen_range(1..=deck.len().min(10))
ChunkRange(len) == 1..Min(len, CHUNK_LIMIT)

\* deck.len() / 2 - 2 leaves usize: a debug build panics on the subtraction,
\* a release build wraps to a value above len / 2 + 2 and gen_range panics on
\* the empty range
SplitUnderflows(len) == len \div 2 < SPLIT_SLACK

\* deck.len() / 2 - 2..=deck.len() / 2 + 2, when the subtraction stays in usize
SplitRange(len) == (len \div 2 - SPLIT_SLACK)..(len \div 2 + SPLIT_SLACK)

\* deck.shuffle(&mut rng): every ordering of the slice can come out
SliceShuffle(d) ==
    {[i \in 1..Len(d) |-> d[p[i]]] : p \in Permutations(1..Len(d))}

----------------------------------------------------------------------------
(* deal_hands *)

RECURSIVE DealRound(_, _)
\* for hand in &mut hands { if let Some(card) = deck.pop() { hand.push(card) } },
\* from hand h on; st = [deck, hands]
DealRound(st, h) ==
    IF h > Len(st.hands) THEN st
    ELSE IF st.deck = <<>> THEN DealRound(st, h + 1)
    ELSE DealRound([deck  |-> Pop(st.deck).rest,
                    hands |-> [st.hands EXCEPT
                                  ![h] = Append(@, Pop(st.deck).card)]],
                   h + 1)

RECURSIVE DealRounds(_, _)
\* for _ in 0..hand_size { ... }, with r rounds still to run
DealRounds(st, r) ==
    IF r = 0 THEN st ELSE DealRounds(DealRound(st, 1), r - 1)

\* deal_hands(deck, nh, hs): the deck left behind and the hands returned
DealHands(d, nh, hs) ==
    DealRounds([deck |-> d, hands |-> [h \in 1..nh |-> <<>>]], hs)

----------------------------------------------------------------------------
(* The trial pipeline on small decks *)

\* the first n cards of the canonical deck: Red 1, Red 1, Red 2, Red 2, ...
PrefixDeck(n) == SubSeq(generate_deck, 1, n)

\* n pairwise different cards: Red 1, Red 2, ...
DistinctDeck(n) == [i \in 1..n |-> generate_deck[2 * i]]

\* a deck longer than the chunk limit: Wild cards and one Skip card on top
LongDeck == [i \in 1..LongLen |-> IF i = LongLen THEN SkipCard ELSE WildCard]

\* the shortest deck in which one half can give a run longer than the run limit
\* while the other half still has a card, with pairwise different cards
RunDeck == DistinctDeck(RUN_LIMIT + 2)

InputDecks ==
    {PrefixDeck(n) : n \in 0..MaxLen}
        \cup {DistinctDeck(n) : n \in 0..MaxLen}
        \cup {RunDeck, LongDeck, generate_deck}

Init ==
    /\ deck \in InputDecks
    /\ input = deck
    /\ deck0 = deck
    /\ hands = <<>>
    /\ pc = "idle"
    /\ op = "none"
    /\ times = 0
    /\ mid = 0
    /\ left_iter = <<>>
    /\ right_iter = <<>>
    /\ shuffled = <<>>
    /\ passes = 0
    /\ pass_i = 0
    /\ cuts = <<>>
    /\ iters = 0
    /\ num_hands = 0
    /\ hand_size = 0
    /\ trial = 0
    /\ color_count = <<>>
    /\ value_count = <<>>
    /\ total_cards = 0
    /\ randomness_results = <<>>

\* a call starts with no locals of riffle_shuffle alive
ClearRiffle ==
    /\ mid' = 0
    /\ left_iter' = <<>>
    /\ right_iter' = <<>>

\* a call starts with no locals of overhand_shuffle alive
ClearOverhand ==
    /\ passes' = 0
    /\ pass_i' = 0
    /\ cuts' = <<>>

\* shuffle_deck(deck, t) is entered
ShuffleDeckCall ==
    /\ pc = "idle"
    /\ Len(deck) <= MaxLen      \* all orderings are explored up to this length
    /\ \E t \in 0..MaxTimes : times' = t
    /\ pc' = "shuffle_for"
    /\ op' = "shuffle_deck"
    /\ deck0' = deck
    /\ ClearRiffle
    /\ ClearOverhand
    /\ shuffled' = <<>>
    /\ iters' = 0
    /\ UNCHANGED <<deck, input, dealVars, mainVars>>

\* one round of for _ in 0..times { deck.shuffle(&mut rng) }
ShuffleDeckStep ==
    /\ pc = "shuffle_for"
    /\ times > 0
    /\ deck' \in SliceShuffle(deck)
    /\ times' = times - 1
    /\ UNCHANGED <<pc, op, input, deck0, shuffled, iters, riffleVars,
                   overhandVars, dealVars, mainVars>>

\* shuffle_deck returns
ShuffleDeckReturn ==
    /\ pc = "shuffle_for"
    /\ times = 0
    /\ pc' = "idle"
    /\ UNCHANGED <<deck, op, input, deck0, times, shuffled, iters, riffleVars,
                   overhandVars, dealVars, mainVars>>

\* riffle_shuffle(deck) is entered on a deck whose split range underflows
RiffleCallPanic ==
    /\ pc = "idle"
    /\ Len(deck) <= LongLen     \* the full deck is dealt, not shuffled, here
    /\ SplitUnderflows(Len(deck))
    /\ pc' = "panic"
    /\ op' = "riffle_shuffle"
    /\ deck0' = deck
    /\ times' = 0
    /\ ClearRiffle
    /\ ClearOverhand
    /\ shuffled' = <<>>
    /\ iters' = 0
    /\ UNCHANGED <<deck, input, dealVars, mainVars>>

\* riffle_shuffle(deck) is entered: the split point is drawn, the deck is split
RiffleCall ==
    /\ pc = "idle"
    /\ Len(deck) <= LongLen     \* the full deck is dealt, not shuffled, here
    /\ ~SplitUnderflows(Len(deck))
    /\ \E m \in SplitRange(Len(deck)) :
          /\ mid' = m
          /\ IF m \in 0..Len(deck)
             THEN /\ left_iter' = SubSeq(deck, 1, m)
                  /\ right_iter' = SubSeq(deck, m + 1, Len(deck))
                  /\ pc' = "riffle_while"
             ELSE \* split_at panics: mid > len
                  /\ left_iter' = <<>>
                  /\ right_iter' = <<>>
                  /\ pc' = "panic"
    /\ shuffled' = <<>>
    /\ iters' = 0
    /\ op' = "riffle_shuffle"
    /\ deck0' = deck
    /\ times' = 0
    /\ ClearOverhand
    /\ UNCHANGED <<deck, input, dealVars, mainVars>>

\* one iteration of the while loop of riffle_shuffle
RiffleIter ==
    /\ pc = "riffle_while"
    /\ Len(left_iter) > 0 \/ Len(right_iter) > 0
    /\ \E take_from_left \in RunRange, take_from_right \in RunRange :
          /\ left_iter' = TakeRun(left_iter, take_from_left).rest
          /\ right_iter' = TakeRun(right_iter, take_from_right).rest
          /\ shuffled' = shuffled \o TakeRun(left_iter, take_from_left).taken
                                  \o TakeRun(right_iter, take_from_right).taken
    /\ iters' = iters + 1
    /\ UNCHANGED <<deck, pc, op, input, deck0, times, mid, overhandVars,
                   dealVars, mainVars>>

\* the loop of riffle_shuffle ends: *deck = shuffled
RiffleReturn ==
    /\ pc = "riffle_while"
    /\ ~(Len(left_iter) > 0 \/ Len(right_iter) > 0)
    /\ deck' = shuffled
    /\ pc' = "idle"
    /\ UNCHANGED <<op, input, deck0, times, shuffled, iters, riffleVars,
                   overhandVars, dealVars, mainVars>>

\* overhand_shuffle(deck, p) is entered
OverhandCall ==
    /\ pc = "idle"
    /\ Len(deck) <= LongLen     \* the full deck is dealt, not shuffled, here
    /\ \E p \in 0..MaxPasses : passes' = p
    /\ pass_i' = 0
    /\ cuts' = <<>>
    /\ shuffled' = <<>>
    /\ iters' = 0
    /\ pc' = "overhand_for"
    /\ op' = "overhand_shuffle"
    /\ deck0' = deck
    /\ times' = 0
    /\ ClearRiffle
    /\ UNCHANGED <<deck, input, dealVars, mainVars>>

\* for _ in 0..passes: a pass begins with an empty output
OverhandPassBegin ==
    /\ pc = "overhand_for"
    /\ pass_i < passes
    /\ shuffled' = <<>>
    /\ cuts' = <<>>
    /\ iters' = 0
    /\ deck0' = deck
    /\ pc' = "overhand_while"
    /\ UNCHANGED <<deck, op, input, times, passes, pass_i, riffleVars,
                   dealVars, mainVars>>

\* one iteration of while !deck.is_empty()
OverhandChunk ==
    /\ pc = "overhand_while"
    /\ deck # <<>>
    /\ \E chunk_size \in ChunkRange(Len(deck)) :
          /\ deck' = Drain(deck, chunk_size).rest
          /\ shuffled' = Splice0(shuffled, Drain(deck, chunk_size).chunk)
          /\ cuts' = Append(cuts, chunk_size)
    /\ iters' = iters + 1
    /\ UNCHANGED <<pc, op, input, deck0, times, passes, pass_i, riffleVars,
                   dealVars, mainVars>>

\* the source is empty: *deck = shuffled, the pass is over
OverhandPassEnd ==
    /\ pc = "overhand_while"
    /\ deck = <<>>
    /\ deck' = shuffled
    /\ pass_i' = pass_i + 1
    /\ pc' = "overhand_for"
    /\ UNCHANGED <<op, input, deck0, times, shuffled, passes, cuts, iters,
                   riffleVars, dealVars, mainVars>>

\* overhand_shuffle returns
OverhandReturn ==
    /\ pc = "overhand_for"
    /\ pass_i >= passes
    /\ pc' = "idle"
    /\ UNCHANGED <<deck, op, input, deck0, times, shuffled, passes, pass_i,
                   cuts, iters, riffleVars, dealVars, mainVars>>

\* the argument pairs deal_hands is called with
DealArgs ==
    ((0..MaxHands) \X (0..MaxHandSize)) \cup {<<NUM_HANDS, HAND_SIZE>>}

\* deal_hands(deck, nh, hs); the locals of the shuffles before it are gone
Deal ==
    /\ pc = "idle"
    /\ \E a \in DealArgs :
          /\ num_hands' = a[1]
          /\ hand_size' = a[2]
          /\ deck' = DealHands(deck, a[1], a[2]).deck
          /\ hands' = DealHands(deck, a[1], a[2]).hands
    /\ deck0' = deck
    /\ pc' = "dealt"
    /\ op' = "deal_hands"
    /\ times' = 0
    /\ ClearRiffle
    /\ ClearOverhand
    /\ shuffled' = <<>>
    /\ iters' = 0
    /\ UNCHANGED <<input, mainVars>>

Next ==
    \/ ShuffleDeckCall
    \/ ShuffleDeckStep
    \/ ShuffleDeckReturn
    \/ RiffleCallPanic
    \/ RiffleCall
    \/ RiffleIter
    \/ RiffleReturn
    \/ OverhandCall
    \/ OverhandPassBegin
    \/ OverhandChunk
    \/ OverhandPassEnd
    \/ OverhandReturn
    \/ Deal

Spec == Init /\ [][Next]_vars

----------------------------------------------------------------------------
(* analyze_randomness *)

\* format!("{:?}", card.color): the name of the variant
ColorKey(card) == card.color

\* the match on card.value
ValueKey(card) ==
    IF card.value[1] = "Number" THEN "Number: " \o ToString(card.value[2])
    ELSE IF card.value[1] = "Wild" THEN "Wild"
    ELSE "Skip"

\* *map.entry(key).or_insert(0) += 1
Bump(map, key) ==
    IF key \in DOMAIN map THEN [map EXCEPT ![key] = @ + 1]
    ELSE map @@ (key :> 1)

RECURSIVE Flatten(_, _)
\* for hand in hands { for card in hand { ... } }: the cards in visiting order
Flatten(hs, h) ==
    IF h > Len(hs) THEN <<>> ELSE hs[h] \o Flatten(hs, h + 1)

RECURSIVE CountCards(_, _)
\* the counting loop of analyze_randomness over the cards in visiting order;
\* st = [color_count, value_count, total_cards], and the card visited next is
\* the one after the total_cards cards counted so far
CountCards(cards, st) ==
    IF st.total_cards >= Len(cards) THEN st
    ELSE CountCards(cards,
            [color_count |-> Bump(st.color_count,
                                  ColorKey(cards[st.total_cards + 1])),
             value_count |-> Bump(st.value_count,
                                  ValueKey(cards[st.total_cards + 1])),
             total_cards |-> st.total_cards + 1])

\* the maps and the total analyze_randomness has after its counting loop
Analyze(hs) ==
    CountCards(Flatten(hs, 1),
               [color_count |-> <<>>, value_count |-> <<>>, total_cards |-> 0])

\* the frequency entries of the metric map; a frequency count / total is kept
\* as the pair <<count, total>>.  The two entropy entries are floating-point
\* sums of logarithms and are not modelled.
Metrics(st) ==
    [k \in {"Color: " \o c : c \in DOMAIN st.color_count}
             \cup {"Value: " \o v : v \in DOMAIN st.value_count} |->
        LET cs == {c \in DOMAIN st.color_count : "Color: " \o c = k}
            vs == {v \in DOMAIN st.value_count : "Value: " \o v = k}
        IN  IF cs # {}
            THEN <<st.color_count[CHOOSE c \in cs : TRUE], st.total_cards>>
            ELSE <<st.value_count[CHOOSE v \in vs : TRUE], st.total_cards>>]

----------------------------------------------------------------------------
(* The loop of main *)

MainInit ==
    /\ pc = "main_for"
    /\ op = "none"
    /\ trial = 0
    /\ randomness_results = <<>>
    /\ deck = <<>>
    /\ input = <<>>
    /\ deck0 = <<>>
    /\ hands = <<>>
    /\ times = 0
    /\ mid = 0
    /\ left_iter = <<>>
    /\ right_iter = <<>>
    /\ shuffled = <<>>
    /\ passes = 0
    /\ pass_i = 0
    /\ cuts = <<>>
    /\ iters = 0
    /\ num_hands = 0
    /\ hand_size = 0
    /\ color_count = <<>>
    /\ value_count = <<>>
    /\ total_cards = 0

shuffleVars == <<times, shuffled, iters, riffleVars, overhandVars>>

\* let mut deck = generate_deck(); the shuffle calls after it are comments
MainGenerate ==
    /\ pc = "main_for"
    /\ trial < Min(iterations, MaxTrials)
    /\ deck' = generate_deck
    /\ input' = generate_deck
    /\ pc' = "main_deal"
    /\ op' = "generate_deck"
    /\ UNCHANGED <<deck0, dealVars, shuffleVars, mainVars>>

\* let hands = deal_hands(&mut deck, NUM_HANDS, HAND_SIZE)
MainDeal ==
    /\ pc = "main_deal"
    /\ num_hands' = NUM_HANDS
    /\ hand_size' = HAND_SIZE
    /\ deck' = DealHands(deck, NUM_HANDS, HAND_SIZE).deck
    /\ hands' = DealHands(deck, NUM_HANDS, HAND_SIZE).hands
    /\ deck0' = deck
    /\ pc' = "main_analyze"
    /\ op' = "deal_hands"
    /\ UNCHANGED <<input, shuffleVars, mainVars>>

\* let metrics = analyze_randomness(&hands); randomness_results.push(metrics);
\* the deck and the hands of the trial are dropped
MainAnalyze ==
    /\ pc = "main_analyze"
    /\ color_count' = Analyze(hands).color_count
    /\ value_count' = Analyze(hands).value_count
    /\ total_cards' = Analyze(hands).total_cards
    /\ randomness_results' = Append(randomness_results, Metrics(Analyze(hands)))
    /\ trial' = trial + 1
    /\ deck' = <<>>
    /\ hands' = <<>>
    /\ pc' = "main_for"
    /\ op' = "analyze_randomness"
    /\ UNCHANGED <<input, deck0, num_hands, hand_size, shuffleVars>>

MainNext ==
    \/ MainGenerate
    \/ MainDeal
    \/ MainAnalyze

MainSpec == MainInit /\ [][MainNext]_vars

----------------------------------------------------------------------------
(* Vocabulary of the properties *)

\* how often card x occurs in sequence s
Count(s, x) == Cardinality({i \in DOMAIN s : s[i] = x})

Range(s) == {s[i] : i \in DOMAIN s}

\* a and b hold the same multiset of cards
SameCards(a, b) ==
    /\ Len(a) = Len(b)
    /\ \A x \in Range(a) \cup Range(b) : Count(a, x) = Count(b, x)

ShuffleOps == {"shuffle_deck", "riffle_shuffle", "overhand_shuffle"}

\* the card at position pos (1-based) of the canonical order, in closed form
CanonicalCard(pos) ==
    IF pos <= 96
    THEN [color |-> CASE pos <= 24 -> "Red"
                      [] pos <= 48 -> "Blue"
                      [] pos <= 72 -> "Green"
                      [] OTHER     -> "Yellow",
          value |-> <<"Number", (((pos - 1) % 24) \div 2) + 1>>]
    ELSE IF pos <= 104 THEN [color |-> "Wild", value |-> <<"Wild">>]
    ELSE [color |-> "Skip", value |-> <<"Skip">>]

\* the k-th card dealt (k from 0) in a round-robin deal over nh hands
DealtCard(hs, nh, k) == hs[(k % nh) + 1][(k \div nh) + 1]

----------------------------------------------------------------------------
(* C1 *)

\* C1: every deck generate_deck returns has exactly 108 cards: 2 copies of
\* each (real color, number 1..12) pair, 8 Wild/Wild cards, 4 Skip/Skip cards
\* and no other card.
C1_DeckComposition ==
    pc = "main_deal" =>
        /\ Len(deck) = 108
        /\ \A c \in {"Red", "Blue", "Green", "Yellow"} : \A n \in 1..12 :
              Count(deck, [color |-> c, value |-> <<"Number", n>>]) = 2
        /\ Count(deck, [color |-> "Wild", value |-> <<"Wild">>]) = 8
        /\ Count(deck, [color |-> "Skip", value |-> <<"Skip">>]) = 4
        /\ \A i \in DOMAIN deck :
              \/ /\ deck[i].color \in {"Red", "Blue", "Green", "Yellow"}
                 /\ deck[i].value \in {<<"Number", n>> : n \in 1..12}
              \/ deck[i] = [color |-> "Wild", value |-> <<"Wild">>]
              \/ deck[i] = [color |-> "Skip", value |-> <<"Skip">>]

\* a later trial has generated its deck
C1_Witness == pc = "main_deal" /\ trial >= 1 /\ Len(deck) = 108

----------------------------------------------------------------------------
(* C2 *)

\* C2: after every completed shuffle_deck, riffle_shuffle (deck length >= 4)
\* or overhand_shuffle call, and after every overhand pass, the deck has the
\* length and the multiset of cards it had when the call began, and, through
\* any sequence of such calls, those of the deck the trial started with.
C2_PermutationInvariance ==
    (op \in ShuffleOps /\ pc \in {"idle", "overhand_for"}) =>
        /\ SameCards(deck, deck0)
        /\ SameCards(deck, input)

\* a riffle that followed an earlier shuffle has reordered the deck
C2_Witness ==
    /\ op = "riffle_shuffle"
    /\ pc = "idle"
    /\ deck0 # input
    /\ deck # deck0
    /\ deck # input

----------------------------------------------------------------------------
(* C3 *)

\* C3: deal_hands never fails and conserves cards: min(L, num_hands *
\* hand_size) cards are dealt, the deck left is the front prefix of the
\* original deck without them, no hand holds more than hand_size cards, and
\* hands and remaining deck together hold exactly the original cards; 108
\* cards dealt 4 x 10 give 40 dealt and 68 left; a deck that is too short
\* ends empty.
C3_DealConservation ==
    op = "deal_hands" =>
        LET L == Len(deck0)
            total == Len(Flatten(hands, 1))
        IN  /\ pc = "dealt"
            /\ Len(hands) = num_hands
            /\ total = Min(L, num_hands * hand_size)
            /\ Len(deck) = L - total
            /\ deck = SubSeq(deck0, 1, L - total)
            /\ \A h \in DOMAIN hands : Len(hands[h]) <= hand_size
            /\ SameCards(deck \o Flatten(hands, 1), deck0)
            /\ (L = 108 /\ num_hands = 4 /\ hand_size = 10) =>
                  (total = 40 /\ Len(deck) = 68)
            /\ L < num_hands * hand_size => deck = <<>>

\* a deck too short for the deal was dealt out into partial hands
C3_Witness ==
    /\ pc = "dealt"
    /\ Len(deck0) = 4
    /\ num_hands = 3
    /\ hand_size = 2
    /\ deck = <<>>
    /\ Len(hands[3]) = 1

----------------------------------------------------------------------------
(* C4 *)

\* C4: deal_hands deals from the end of the deck in round-robin order: the
\* k-th card dealt is the card at original position L-1-k (0-based) and is
\* card k div num_hands of hand k mod num_hands; hand sizes differ by at most
\* one and never grow with the hand index.
C4_DealOrder ==
    pc = "dealt" =>
        LET L == Len(deck0)
            total == Min(L, num_hands * hand_size)
        IN  /\ \A k \in 0..(total - 1) :
                  /\ (k \div num_hands) + 1 <= Len(hands[(k % num_hands) + 1])
                  /\ DealtCard(hands, num_hands, k) = deck0[L - k]
            /\ \A h \in DOMAIN hands :
                  Len(hands[h]) =
                      Cardinality({k \in 0..(total - 1) : k % num_hands = h - 1})
            /\ \A g, h \in DOMAIN hands :
                  /\ Len(hands[g]) - Len(hands[h]) <= 1
                  /\ g < h => Len(hands[g]) >= Len(hands[h])

\* pairwise different cards were dealt over several rounds into uneven hands
C4_Witness ==
    /\ pc = "dealt"
    /\ Len(deck0) = 5
    /\ \A i, j \in DOMAIN deck0 : i # j => deck0[i] # deck0[j]
    /\ num_hands = 3
    /\ hand_size = 2
    /\ Len(hands[1]) = 2
    /\ Len(hands[3]) = 1

----------------------------------------------------------------------------
(* C5 *)

\* C5: riffle_shuffle on a deck of 1, 2 or 3 cards completes without failure
\* and leaves a deck with the same multiset of cards.
C5_SmallDeckHandled ==
    (op = "riffle_shuffle" /\ Len(deck0) \in 1..3) =>
        /\ pc # "panic"
        /\ pc = "idle" => SameCards(deck, deck0)

----------------------------------------------------------------------------
(* C6 *)

\* C6: in every trial of main the 40 cards dealt are the last 40 cards of the
\* canonical order, last card first: 4 Skip cards, then 8 Wild cards, then
\* number cards; the deck left is the first 68 canonical cards; the hands,
\* and so the metric maps and their keys, are the same in every trial.
C6_DefaultPipeline ==
    /\ pc = "main_analyze" =>
          /\ Len(hands) = 4
          /\ \A h \in DOMAIN hands : Len(hands[h]) = 10
          /\ \A k \in 0..39 : DealtCard(hands, 4, k) = CanonicalCard(108 - k)
          /\ \A k \in 0..3 : DealtCard(hands, 4, k).color = "Skip"
          /\ \A k \in 4..11 : DealtCard(hands, 4, k).color = "Wild"
          /\ \A k \in 12..39 : DealtCard(hands, 4, k).value[1] = "Number"
          /\ deck = [i \in 1..68 |-> CanonicalCard(i)]
    /\ \A i, j \in DOMAIN randomness_results :
          /\ DOMAIN randomness_results[i] = DOMAIN randomness_results[j]
          /\ randomness_results[i] = randomness_results[j]

\* a later trial has dealt its hands, with earlier results recorded
C6_Witness ==
    /\ pc = "main_analyze"
    /\ trial >= 2
    /\ Len(randomness_results) >= 2
    /\ Len(hands) = 4

----------------------------------------------------------------------------
(* C7 *)

\* the count analyze_randomness holds for color c (0 for an absent key)
ColorCount(c) == IF c \in DOMAIN color_count THEN color_count[c] ELSE 0

\* C7 as stated: over the 40 dealt cards Skip and Wild together count more
\* cards than the four real colors together, and no real color has a larger
\* count than Wild.
C7_SkipWildDominate ==
    (pc = "main_for" /\ trial >= 1) =>
        /\ ColorCount("Skip") + ColorCount("Wild") >
              ColorCount("Red") + ColorCount("Blue")
                  + ColorCount("Green") + ColorCount("Yellow")
        /\ \A c \in {"Red", "Blue", "Green", "Yellow"} :
              ColorCount(c) <= ColorCount("Wild")

\* C7 amended: over the 40 dealt cards the color counts are Skip 4, Wild 8,
\* Yellow 24 and Green 4, Red and Blue being absent: every Skip and Wild card
\* of the deck is counted, but they are 12 of the 40 cards against 28 cards
\* of real colors, and Yellow, not Wild, has the largest count.
C7_SkewedCounts ==
    (pc = "main_for" /\ trial >= 1) =>
        /\ total_cards = 40
        /\ DOMAIN color_count = {"Skip", "Wild", "Yellow", "Green"}
        /\ color_count["Skip"] = 4
        /\ color_count["Wild"] = 8
        /\ color_count["Yellow"] = 24
        /\ color_count["Green"] = 4
        /\ ColorCount("Skip") + ColorCount("Wild") = 12
        /\ ColorCount("Red") + ColorCount("Blue")
              + ColorCount("Green") + ColorCount("Yellow") = 28
        /\ \A c \in DOMAIN color_count : color_count[c] <= color_count["Yellow"]

\* a trial has been analyzed
C7_Witness ==
    /\ pc = "main_for"
    /\ trial >= 1
    /\ total_cards = 40
    /\ "Wild" \in DOMAIN color_count

----------------------------------------------------------------------------
(* C8 *)

RECURSIVE SumTo(_, _)
\* cs[1] + ... + cs[i]
SumTo(cs, i) == IF i = 0 THEN 0 ELSE cs[i] + SumTo(cs, i - 1)

\* the i-th chunk of d when d is cut into consecutive chunks of sizes cs
Chunk(d, cs, i) == SubSeq(d, SumTo(cs, i - 1) + 1, SumTo(cs, i))

RECURSIVE ChunksReversed(_, _, _)
\* chunk i, chunk i-1, ..., chunk 1 of d
ChunksReversed(d, cs, i) ==
    IF i = 0 THEN <<>> ELSE Chunk(d, cs, i) \o ChunksReversed(d, cs, i - 1)

\* C8: a completed overhand pass on d leaves cm ... c2 c1 for a split of d
\* into consecutive chunks c1 ... cm, each of size between 1 and min(10, cards
\* left in the source when it was cut), the cards inside a chunk in their
\* original order; with passes = 0 or an empty deck the deck is unchanged.
C8_OverhandPass ==
    /\ (pc = "overhand_for" /\ pass_i > 0) =>
          /\ SumTo(cuts, Len(cuts)) = Len(deck0)
          /\ \A i \in DOMAIN cuts :
                /\ cuts[i] >= 1
                /\ cuts[i] <= 10
                /\ cuts[i] <= Len(deck0) - SumTo(cuts, i - 1)
          /\ deck = ChunksReversed(deck0, cuts, Len(cuts))
    /\ (pc = "idle" /\ op = "overhand_shuffle"
            /\ (passes = 0 \/ deck0 = <<>>)) => deck = deck0

\* a pass cut pairwise different cards into chunks of several cards
C8_Witness ==
    /\ pc = "overhand_for"
    /\ pass_i > 0
    /\ Len(deck0) = 5
    /\ \A i, j \in DOMAIN deck0 : i # j => deck0[i] # deck0[j]
    /\ cuts = <<2, 3>>
    /\ deck = SubSeq(deck0, 3, 5) \o SubSeq(deck0, 1, 2)

----------------------------------------------------------------------------
(* C9 *)

RECURSIVE Pick(_, _, _)
\* the cards of out at the positions of S, from position i on, in order
Pick(out, S, i) ==
    IF i > Len(out) THEN <<>>
    ELSE (IF i \in S THEN <<out[i]>> ELSE <<>>) \o Pick(out, S, i + 1)

\* S (the output positions filled from the left half) never holds four
\* consecutive positions unless the right half is used up before the fourth,
\* and likewise for the right half
RunsBounded(S, n) ==
    \A i \in 1..(n - 3) :
        /\ (\A j \in i..(i + 3) : j \in S) =>
              \A j \in (1..n) \ S : j < i + 3
        /\ (\A j \in i..(i + 3) : j \notin S) =>
              \A j \in S : j < i + 3

\* out interleaves left and right, keeping the order of each, starting with
\* left when left is not empty, with bounded runs
IsRiffleOf(out, left, right) ==
    /\ Len(out) = Len(left) + Len(right)
    /\ \E S \in SUBSET (1..Len(out)) :
          /\ Cardinality(S) = Len(left)
          /\ Pick(out, S, 1) = left
          /\ Pick(out, (1..Len(out)) \ S, 1) = right
          /\ left # <<>> => 1 \in S
          /\ RunsBounded(S, Len(out))

\* C9: on a deck of length L >= 4 riffle_shuffle does not fail, draws mid
\* with L/2 - 2 <= mid <= L/2 + 2 and mid <= L, and leaves an interleaving of
\* deck[0..mid] and deck[mid..L] that keeps the order inside each half,
\* starts with the left half when it is not empty, and has no more than 3
\* consecutive cards of one half while the other half still has cards.
C9_RiffleInterleave ==
    (op = "riffle_shuffle" /\ Len(deck0) >= 4) =>
        /\ pc \in {"riffle_while", "idle"}
        /\ (Len(deck0) \div 2) - 2 <= mid
        /\ mid <= (Len(deck0) \div 2) + 2
        /\ mid <= Len(deck0)
        /\ pc = "idle" =>
              IsRiffleOf(deck, SubSeq(deck0, 1, mid),
                         SubSeq(deck0, mid + 1, Len(deck0)))

\* pairwise different cards were split 3 + 2 and interleaved
C9_Witness ==
    /\ op = "riffle_shuffle"
    /\ pc = "idle"
    /\ Len(deck0) = 5
    /\ \A i, j \in DOMAIN deck0 : i # j => deck0[i] # deck0[j]
    /\ mid = 3
    /\ deck = <<deck0[1], deck0[2], deck0[4], deck0[3], deck0[5]>>

----------------------------------------------------------------------------
(* C10 *)

\* inside a loop the next iteration or the exit can always be taken, the
\* iteration counts stay within the cards consumed, and a finished loop has
\* consumed every card
C10_Bounds ==
    /\ pc = "riffle_while" =>
          /\ ENABLED RiffleIter \/ ENABLED RiffleReturn
          /\ iters <= Len(shuffled)
          /\ Len(shuffled) + Len(left_iter) + Len(right_iter) = Len(deck0)
    /\ (pc = "idle" /\ op = "riffle_shuffle") =>
          /\ iters <= Len(deck0)
          /\ left_iter = <<>>
          /\ right_iter = <<>>
          /\ Len(deck) = Len(deck0)
    /\ pc = "overhand_while" =>
          /\ ENABLED OverhandChunk \/ ENABLED OverhandPassEnd
          /\ iters <= Len(shuffled)
          /\ Len(shuffled) + Len(deck) = Len(deck0)
    /\ (pc = "overhand_for" /\ pass_i > 0) =>
          /\ iters <= Len(deck0)
          /\ iters * 10 >= Len(deck0)
          /\ Len(shuffled) = Len(deck0)

\* an iteration of either loop takes at least one card from its source
C10_Progress ==
    /\ (pc = "riffle_while" /\ iters' = iters + 1) =>
          Len(left_iter') + Len(right_iter') < Len(left_iter) + Len(right_iter)
    /\ (pc = "overhand_while" /\ iters' = iters + 1) =>
          Len(deck') < Len(deck)

\* C10: the shuffle loops terminate whatever is drawn: every iteration of the
\* riffle loop consumes at least one card, so on a deck of length L >= 4 the
\* loop ends after at most L iterations with both halves used up; every
\* iteration of the inner overhand loop removes at least one card, so a pass
\* ends after at most L and at least ceil(L/10) iterations with the source
\* empty.
C10_Termination == [](C10_Bounds) /\ [][C10_Progress]_vars

\* a pass over a deck longer than the chunk limit ended after two iterations
C10_Witness ==
    /\ pc = "overhand_for"
    /\ pass_i > 0
    /\ Len(deck0) > 10
    /\ iters = 2
    /\ Len(shuffled) = Len(deck0)

====
